---------------------------- MODULE Spec2Model ----------------------------
(***************************************************************************)
(* A model of jsmn2.c: the resumable JSON tokenizer jsmn_parse with its    *)
(* token allocator, primitive scanner, string scanner and whitespace       *)
(* tracker.  Bytes are one-character strings; offsets are 0-based as in C, *)
(* so the byte at offset i of the buffer is js[i + 1].                     *)
(***************************************************************************)
EXTENDS Integers, Sequences, FiniteSets, TLC

\* ------------------------------------------------------------------ bounds
\* Largest token pool a caller hands to jsmn_parse.
MaxCap == 7
\* Every byte string up to this length over Alphabet is an input.
MaxLen == 2

\* ------------------------------------------------------------------- bytes
NUL == "NUL"
VT  == "VT"
QUOTE == "\""
BSL == "\\"

\* enum jsmntype_t and enum jsmnerr (declared in jsmn2.h)
JSMN_UNDEFINED == "UNDEFINED"
JSMN_OBJECT    == "OBJECT"
JSMN_ARRAY     == "ARRAY"
JSMN_STRING    == "STRING"
JSMN_PRIMITIVE == "PRIMITIVE"

JSMN_SUCCESS                == "SUCCESS"
JSMN_ERROR_NOMEM            == "NOMEM"
JSMN_ERROR_INVAL            == "INVAL"
JSMN_ERROR_UNEXPECTED_EOF   == "UNEXPECTED_EOF"
JSMN_ERROR_UNCLOSED_STRING  == "UNCLOSED_STRING"
JSMN_ERROR_UNEXPECTED_CHAR  == "UNEXPECTED_CHAR"
JSMN_ERROR_BROKEN_NEWLINE   == "BROKEN_NEWLINE"
JSMN_ERROR_UNCLOSED_OBJECT  == "UNCLOSED_OBJECT"
JSMN_ERROR_UNCLOSED_ARRAY   == "UNCLOSED_ARRAY"
JSMN_ERROR_EXPECTED_EOF     == "EXPECTED_EOF"
JSMN_ERROR_TRAILING_COMMA   == "TRAILING_COMMA"
\* not a return value: the driver loop goes on to its next iteration
CONT  == "continue"
\* not a return value: an out-of-bounds read trapped and the process died
FAULT == "fault"

VARIABLES
  js,                  \* the caller's buffer (memory actually present)
  len,                 \* the declared length passed to jsmn_parse
  JSMN_PARENT_LINKS,   \* build configuration
  JSMN_TESTMODE,
  JSMN_NO_TRAILING_COMMAS,
  parser,              \* jsmn_parser
  tokens,              \* the caller's backing array of jsmntok_t
  num_tokens,          \* capacity given to the current / last call
  pc,                  \* "ready" (between calls), "loop", "done"
  result,              \* what the last call returned
  outsideByte,         \* the byte past the end of js: {} until first read,
                       \* then the one value it has
  outsideTok,          \* the record at tokens[-1]: {} until first read
  readBeyond,          \* some read of js at an offset >= len has happened
  readOutside          \* some read of tokens[] outside the pool has happened

vars == <<js, len, JSMN_PARENT_LINKS, JSMN_TESTMODE, JSMN_NO_TRAILING_COMMAS,
          parser, tokens, num_tokens, pc, result, outsideByte, outsideTok,
          readBeyond, readOutside>>

\* ---------------------------------------------------------------- tokens
\* jsmn_init_token
InitToken ==
  [type |-> JSMN_UNDEFINED, unclosed |-> FALSE, is_key |-> FALSE,
   associated |-> FALSE, start |-> -1, size |-> 0, parent |-> -1]

\* What a step has read: beyond (js at an offset >= len), pool (a slot
\* outside the pool), memByte and memTok (memory outside the two buffers).
NoReads ==
  [beyond |-> FALSE, pool |-> FALSE, memByte |-> FALSE, memTok |-> FALSE]

ReadByte(i, fl) ==
  [fl EXCEPT !.beyond = @ \/ i >= len, !.memByte = @ \/ i >= Len(js)]

ReadTok(i, fl) == [fl EXCEPT !.pool = @ \/ i < 0, !.memTok = @ \/ i < 0]

\* js[i] as the machine reads it; g is the memory outside the buffers
Byte(i, g) == IF i < Len(js) THEN js[i + 1] ELSE g.byte

\* tokens[i] as the machine reads it
Tok(toks, i, g) ==
  IF i >= 0 THEN toks[i]
  ELSE [InitToken EXCEPT !.type = g.type, !.is_key = g.is_key]

\* what a step of the driver or a scanner gives
Return(p, toks, r, fl) == [p |-> p, toks |-> toks, r |-> r, fl |-> fl]

\* jsmn_alloc_token: [ok, p, toks, idx]
jsmn_alloc_token(p, toks, n) ==
  IF p.toknext >= n
    THEN [ok |-> FALSE, p |-> p, toks |-> toks, idx |-> -1]
    ELSE [ok |-> TRUE,
          p |-> [p EXCEPT !.toknext = p.toknext + 1],
          toks |-> [toks EXCEPT ![p.toknext] = InitToken],
          idx |-> p.toknext]

\* a variant of jsmn_fill_token whose size takes in the byte at end
FillThroughEnd(token, type, start, end) ==
  [token EXCEPT !.type = type, !.start = start, !.size = end - start + 1]

\* jsmn_fill_token
jsmn_fill_token(token, type, start, end) ==
  [token EXCEPT !.type = type, !.start = start, !.size = end - start]

\* ASCII codes of the bytes the model uses
Ord(c) ==
  CASE c = NUL -> 0   [] c = "\t" -> 9  [] c = "\n" -> 10 [] c = VT -> 11
    [] c = "\f" -> 12 [] c = "\r" -> 13 [] c = " " -> 32  [] c = QUOTE -> 34
    [] c = "," -> 44  [] c = "-" -> 45  [] c = "/" -> 47  [] c = "0" -> 48
    [] c = "1" -> 49  [] c = "2" -> 50  [] c = "3" -> 51  [] c = "4" -> 52
    [] c = "5" -> 53  [] c = "6" -> 54  [] c = "7" -> 55  [] c = "8" -> 56
    [] c = "9" -> 57
    [] c = ":" -> 58  [] c = "A" -> 65  [] c = "F" -> 70
    [] c = "G" -> 71  [] c = "[" -> 91  [] c = BSL -> 92  [] c = "]" -> 93
    [] c = "a" -> 97  [] c = "b" -> 98  [] c = "c" -> 99
    [] c = "e" -> 101 [] c = "f" -> 102 [] c = "g" -> 103 [] c = "l" -> 108
    [] c = "n" -> 110 [] c = "r" -> 114 [] c = "s" -> 115 [] c = "t" -> 116
    [] c = "u" -> 117 [] c = "x" -> 120 [] c = "{" -> 123 [] c = "}" -> 125

\* c | 0x20
Or0x20(v) == IF (v \div 32) % 2 = 1 THEN v ELSE v + 32

\* ishexdigit: both differences are taken as unsigned short
ishexdigit(c) ==
  \/ (Ord(c) - 48) % 65536 <= 9
  \/ (Or0x20(Ord(c)) - 97) % 65536 <= 5

\* the terminators of jsmn_parse_primitive's switch
PrimitiveEnd == {VT, "\f", "\t", "\r", "\n", " ", ",", "]", "}"}

\* a variant of the loop below for which the end of input is a terminator
RECURSIVE ScanToEnd(_, _)
ScanToEnd(i, g) ==
  IF ~(i < len /\ Byte(i, g) # NUL) THEN i
  ELSE IF Byte(i, g) \in PrimitiveEnd THEN i
  ELSE ScanToEnd(i + 1, g)

\* the for loop of jsmn_parse_primitive: the offset of the terminator, or -1
RECURSIVE PrimitiveScan(_, _)
PrimitiveScan(i, g) ==
  IF ~(i < len /\ Byte(i, g) # NUL) THEN -1
  ELSE IF Byte(i, g) \in PrimitiveEnd THEN i
  ELSE PrimitiveScan(i + 1, g)

\* token->parent = parser->toksuper, under JSMN_PARENT_LINKS
SetParent(token, super) ==
  IF JSMN_PARENT_LINKS THEN [token EXCEPT !.parent = super] ELSE token

\* A scanner's token lands in the slot a (an allocation) gave, or in
\* parser->tokbuf when the pool is exhausted; p is the parser as the scanner
\* leaves it, token what it wrote over the slot it got.
Emit(a, pos, col, fill(_), fl) ==
  IF a.ok
    THEN Return([a.p EXCEPT !.pos = pos, !.col = col],
                [a.toks EXCEPT ![a.idx] = fill(@)], JSMN_SUCCESS, fl)
    ELSE Return([a.p EXCEPT !.pos = pos, !.col = col, !.tokbuf = fill(@)],
                a.toks, JSMN_ERROR_NOMEM, fl)

\* jsmn_parse_primitive after its loop stopped at e
PrimitiveFound(p, toks, n, e) ==
  IF e = -1 THEN Return(p, toks, JSMN_ERROR_UNEXPECTED_EOF, NoReads)
  ELSE Emit(jsmn_alloc_token(p, toks, n), e, p.col + (e - p.pos),
            LAMBDA t : SetParent(jsmn_fill_token(t, JSMN_PRIMITIVE, p.pos, e),
                                 p.toksuper),
            NoReads)

\* jsmn_parse_primitive
jsmn_parse_primitive(p, toks, n, g) ==
  PrimitiveFound(p, toks, n, PrimitiveScan(p.pos, g))

\* the \u loop of jsmn_parse_string, p at the byte after the u:
\* for (i = 0; i < 4 && *p != '\n'; p++, i++) if (!ishexdigit(*p)) return
RECURSIVE HexLoop(_, _, _, _)
HexLoop(q, i, g, fl) ==
  IF i >= 4 THEN [inval |-> FALSE, at |-> q, fl |-> fl]
  ELSE IF Byte(q, g) = "\n"
    THEN [inval |-> FALSE, at |-> q, fl |-> ReadByte(q, fl)]
  ELSE IF ~ishexdigit(Byte(q, g))
    THEN [inval |-> TRUE, at |-> q, fl |-> ReadByte(q, fl)]
  ELSE HexLoop(q + 1, i + 1, g, ReadByte(q, fl))

\* the escapes the string scanner lets through as two bytes
AllowedEscapes == {QUOTE, "/", BSL, "b", "f", "r", "n", "t"}

\* the for loop of jsmn_parse_string from offset i: where it stops and why
RECURSIVE StringScan(_, _, _)
AfterHex(h, g) ==
  IF h.inval THEN [kind |-> "inval", at |-> h.at, fl |-> h.fl]
  ELSE StringScan(h.at, g, h.fl)

StringScan(i, g, fl) ==
  IF ~(i < len /\ Byte(i, g) # NUL)
    THEN [kind |-> "unclosed", at |-> i, fl |-> fl]
  ELSE IF Byte(i, g) = QUOTE THEN [kind |-> "quote", at |-> i, fl |-> fl]
  ELSE IF Byte(i, g) = BSL /\ i + 1 < len
    THEN IF Byte(i + 1, g) \in AllowedEscapes THEN StringScan(i + 2, g, fl)
         ELSE IF Byte(i + 1, g) = "u" THEN AfterHex(HexLoop(i + 2, 0, g, fl), g)
         ELSE [kind |-> "inval", at |-> i + 1, fl |-> fl]
  ELSE StringScan(i + 1, g, fl)

\* if ((tokens + parser->toksuper)->type == JSMN_OBJECT) token->is_key = true
SetKey(token, super) ==
  IF super.type = JSMN_OBJECT THEN [token EXCEPT !.is_key = TRUE] ELSE token

\* jsmn_parse_string after its loop stopped as s says
StringFound(p, toks, n, g, s) ==
  IF s.kind = "unclosed" THEN Return(p, toks, JSMN_ERROR_UNCLOSED_STRING, s.fl)
  ELSE IF s.kind = "inval" THEN Return(p, toks, JSMN_ERROR_INVAL, s.fl)
  ELSE Emit(jsmn_alloc_token(p, toks, n), s.at + 1, p.col + (s.at - p.pos + 1),
            LAMBDA t : SetKey(SetParent(jsmn_fill_token(t, JSMN_STRING,
                                                        p.pos + 1, s.at),
                                        p.toksuper),
                              Tok(toks, p.toksuper, g)),
            ReadTok(p.toksuper, s.fl))

\* jsmn_parse_string
jsmn_parse_string(p, toks, n, g) ==
  StringFound(p, toks, n, g, StringScan(p.pos + 1, g, NoReads))

\* the white space bytes of jamn_skip_whitespaces other than '\r' and '\n'
Blank == {" ", "\t", VT, "\f"}

\* jamn_skip_whitespaces: [p, rc, fl].  line and col are written as the loop
\* goes, pos only at the `out` label.  SkipFrom is the body of the do-while
\* with p at offset q; SkipOn is its tail: p++; parser->col++; and the test.
RECURSIVE SkipFrom(_, _, _, _)
SkipOn(q, p, g, fl) ==
  IF q + 1 < len /\ Byte(q + 1, g) # NUL
    THEN SkipFrom(q + 1, [p EXCEPT !.col = @ + 1], g, fl)
    ELSE [p |-> [p EXCEPT !.col = @ + 1, !.pos = q + 1], rc |-> 0, fl |-> fl]

SkipFrom(q, p, g, fl) ==
  IF Byte(q, g) = "\r"
    THEN IF Byte(q + 1, g) # "\n"
           THEN [p |-> p, rc |-> -1, fl |-> ReadByte(q + 1, fl)]
           ELSE SkipOn(q + 1, [p EXCEPT !.line = @ + 1, !.col = 0], g,
                       ReadByte(q + 1, fl))
  ELSE IF Byte(q, g) = "\n"
    THEN SkipOn(q, [p EXCEPT !.line = @ + 1, !.col = 0], g, fl)
  ELSE IF Byte(q, g) \in Blank THEN SkipOn(q, p, g, fl)
  ELSE [p |-> [p EXCEPT !.pos = q], rc |-> 0, fl |-> fl]

jamn_skip_whitespaces(p, g) == SkipFrom(p.pos, p, g, NoReads)

\* ----------------------------------------------------------------- driver
\* a variant of JSMN_PARSER_ADVANCE that moves the column and not the cursor
AdvanceColumn(p, k) == [p EXCEPT !.col = @ + k]

\* JSMN_PARSER_ADVANCE
JSMN_PARSER_ADVANCE(p, k) == [p EXCEPT !.pos = @ + k, !.col = @ + k]

\* case '{': case '[': once the token a.idx is allocated
Opened(c, p, a) ==
  IF p.toksuper # -1 /\ a.toks[p.toksuper].type = JSMN_OBJECT
    THEN Return(a.p, a.toks, JSMN_ERROR_INVAL, NoReads)
  ELSE IF p.toksuper = -1 /\ a.p.toknext > 1
    THEN Return(a.p, a.toks, JSMN_ERROR_EXPECTED_EOF, NoReads)
  ELSE Return(JSMN_PARSER_ADVANCE([a.p EXCEPT !.toksuper = a.p.toknext - 1], 1),
              [i \in DOMAIN a.toks |->
                 IF i = a.idx
                   THEN [SetParent(a.toks[i], p.toksuper) EXCEPT
                           !.type = IF c = "{" THEN JSMN_OBJECT ELSE JSMN_ARRAY,
                           !.unclosed = TRUE,
                           !.start = p.pos]
                 ELSE IF i = p.toksuper /\ a.toks[i].type = JSMN_ARRAY
                   THEN [a.toks[i] EXCEPT !.size = @ + 1]
                 ELSE a.toks[i]],
              CONT, NoReads)

\* case '{': case '[':
CaseOpen(c, p, toks, n) ==
  IF ~JSMN_TESTMODE /\ p.toknext = 0 /\ c # "{"
    THEN Return(p, toks, JSMN_ERROR_UNEXPECTED_CHAR, NoReads)
  ELSE IF p.toknext >= n THEN Return(p, toks, JSMN_ERROR_NOMEM, NoReads)
  ELSE Opened(c, p, jsmn_alloc_token(p, toks, n))

\* the for (;;) loop of the closing case under JSMN_PARENT_LINKS
RECURSIVE Walk(_, _, _, _)
Walk(i, type, p, toks) ==
  IF toks[i].start # -1 /\ toks[i].unclosed
    THEN IF toks[i].type # type
           THEN Return(p, toks, JSMN_ERROR_UNEXPECTED_CHAR, NoReads)
           ELSE Return(JSMN_PARSER_ADVANCE(
                         [p EXCEPT !.toksuper = toks[i].parent], 1),
                       [toks EXCEPT ![i].unclosed = FALSE], CONT, NoReads)
  ELSE IF toks[i].parent = -1
    THEN IF toks[i].type # type \/ p.toksuper = -1
           THEN Return(p, toks, JSMN_ERROR_UNEXPECTED_CHAR, NoReads)
           ELSE Return(JSMN_PARSER_ADVANCE(p, 1), toks, CONT, NoReads)
  ELSE Walk(toks[i].parent, type, p, toks)

\* case '}': case ']': under JSMN_PARENT_LINKS
CloseByParentLinks(type, p, toks) ==
  IF p.toknext < 1 THEN Return(p, toks, JSMN_ERROR_INVAL, NoReads)
  ELSE IF toks[p.toknext - 1].is_key
    THEN Return(p, toks, JSMN_ERROR_UNEXPECTED_CHAR, NoReads)
  ELSE IF JSMN_NO_TRAILING_COMMAS /\ p.last_is_comma
    THEN Return(p, toks, JSMN_ERROR_TRAILING_COMMA, NoReads)
  ELSE Walk(p.toknext - 1, type, p, toks)

\* a variant of the scan below that goes forward: the lowest such index
FirstUnclosed(toks, from) ==
  IF \E i \in 0..from : toks[i].start # -1 /\ toks[i].unclosed
    THEN CHOOSE i \in 0..from :
           /\ toks[i].start # -1 /\ toks[i].unclosed
           /\ \A k \in 0..(i - 1) : ~(toks[k].start # -1 /\ toks[k].unclosed)
    ELSE -1

\* the highest index <= from of a token with start != -1 that is unclosed,
\* or -1: the backward scans of the closing case and of the end of input
RECURSIVE LastUnclosed(_, _)
LastUnclosed(toks, from) ==
  IF from < 0 THEN -1
  ELSE IF toks[from].start # -1 /\ toks[from].unclosed THEN from
  ELSE LastUnclosed(toks, from - 1)

\* the closing case without parent links, its first scan having stopped at i
ClosedAt(i, type, p, toks, fl) ==
  IF i = -1 THEN Return(p, toks, JSMN_ERROR_UNEXPECTED_CHAR, fl)
  ELSE IF toks[i].type # type
    THEN Return(p, toks, JSMN_ERROR_UNEXPECTED_CHAR, fl)
  ELSE Return(JSMN_PARSER_ADVANCE(
                [p EXCEPT !.toksuper = LastUnclosed(toks, i - 1)], 1),
              [toks EXCEPT ![i].unclosed = FALSE], CONT, fl)

\* case '}': case ']': without JSMN_PARENT_LINKS
CloseByLinearScan(type, p, toks, g) ==
  IF Tok(toks, p.toknext - 1, g).is_key
    THEN Return(p, toks, JSMN_ERROR_UNEXPECTED_CHAR,
                ReadTok(p.toknext - 1, NoReads))
    ELSE ClosedAt(LastUnclosed(toks, p.toknext - 1), type, p, toks,
                  ReadTok(p.toknext - 1, NoReads))

\* case '}': case ']':
CaseClose(c, p, toks, g) ==
  IF JSMN_PARENT_LINKS
    THEN CloseByParentLinks(IF c = "}" THEN JSMN_OBJECT ELSE JSMN_ARRAY, p, toks)
    ELSE CloseByLinearScan(IF c = "}" THEN JSMN_OBJECT ELSE JSMN_ARRAY,
                           p, toks, g)

\* what the string and primitive cases return after a scan that returned r
\* (Success or NoMemory) and whose token could attach
Scanned(r) == IF r = JSMN_SUCCESS THEN CONT ELSE r

\* variants of the increment below that count for one type of container only
CountInArray(t) == IF t.type = JSMN_ARRAY THEN [t EXCEPT !.size = @ + 1] ELSE t
CountInObject(t) == IF t.type = JSMN_OBJECT THEN [t EXCEPT !.size = @ + 1] ELSE t

\* t->size++ of the string case and of the primitive case
Count(t) == [t EXCEPT !.size = @ + 1]

\* The bookkeeping of the string case and of the primitive case on
\* tokens[toksuper] once their scanner returned o; p is the parser before the
\* scan, whose line, col and pos the driver kept.
Attach(o, p) ==
  IF o.r \notin {JSMN_SUCCESS, JSMN_ERROR_NOMEM} THEN o
  ELSE IF o.p.toksuper = -1 THEN [o EXCEPT !.r = Scanned(@)]
  ELSE IF o.toks[o.p.toksuper].type \in {JSMN_OBJECT, JSMN_ARRAY}
    THEN [o EXCEPT !.toks[o.p.toksuper] = Count(@), !.r = Scanned(@)]
  ELSE IF /\ o.toks[o.p.toksuper].type = JSMN_STRING
          /\ o.toks[o.p.toksuper].is_key
          /\ ~o.toks[o.p.toksuper].associated
    THEN [o EXCEPT !.toks[o.p.toksuper].associated = TRUE, !.r = Scanned(@)]
  ELSE [o EXCEPT !.p.line = p.line, !.p.col = p.col, !.p.pos = p.pos,
                 !.p.tokbuf.type = JSMN_UNDEFINED,
                 !.r = JSMN_ERROR_UNEXPECTED_CHAR]

\* case '\"':
CaseString(p, toks, n, g) == Attach(jsmn_parse_string(p, toks, n, g), p)

\* the whitespace case once jamn_skip_whitespaces returned w
Skipped(w, toks) ==
  Return(w.p, toks, IF w.rc # 0 THEN JSMN_ERROR_BROKEN_NEWLINE ELSE CONT, w.fl)

\* case '\r': case '\n': case ' ': case '\t': case '\f': case '\v':
CaseWhitespace(p, toks, g) == Skipped(jamn_skip_whitespaces(p, g), toks)

\* case ':':
CaseColon(p, toks, g) ==
  IF ~Tok(toks, p.toknext - 1, g).is_key
    THEN Return(p, toks, JSMN_ERROR_UNEXPECTED_CHAR,
                ReadTok(p.toknext - 1, NoReads))
    ELSE Return(JSMN_PARSER_ADVANCE([p EXCEPT !.toksuper = p.toknext - 1], 1),
                toks, CONT, ReadTok(p.toknext - 1, NoReads))

\* the backward scan of the ',' case without JSMN_PARENT_LINKS: the highest
\* index <= from of an open array or object, or keep (toksuper stays)
RECURSIVE LastOpenContainer(_, _, _)
LastOpenContainer(toks, from, keep) ==
  IF from < 0 THEN keep
  ELSE IF /\ toks[from].type \in {JSMN_ARRAY, JSMN_OBJECT}
          /\ toks[from].start # -1
          /\ toks[from].unclosed THEN from
  ELSE LastOpenContainer(toks, from - 1, keep)

\* enum jsmntype_t is ordered: Undefined < Object < Array < String < Primitive
AtMostArray(type) == type \in {JSMN_UNDEFINED, JSMN_OBJECT, JSMN_ARRAY}

\* the ',' case: toksuper leaves a string or primitive for its container
PopToContainer(p, toks) ==
  IF p.toksuper = -1 \/ AtMostArray(toks[p.toksuper].type) THEN p.toksuper
  ELSE IF JSMN_PARENT_LINKS THEN toks[p.toksuper].parent
  ELSE LastOpenContainer(toks, p.toknext - 1, p.toksuper)

\* case ',':
CaseComma(p, toks, g) ==
  IF Tok(toks, p.toknext - 1, g).is_key \/ p.last_is_comma
    THEN Return(p, toks, JSMN_ERROR_UNEXPECTED_CHAR,
                ReadTok(p.toknext - 1, NoReads))
  ELSE IF /\ JSMN_NO_TRAILING_COMMAS
          /\ AtMostArray(Tok(toks, p.toknext - 1, g).type)
    THEN Return(p, toks, JSMN_ERROR_TRAILING_COMMA,
                ReadTok(p.toknext - 1, NoReads))
  ELSE Return(JSMN_PARSER_ADVANCE(
                [p EXCEPT !.toksuper = PopToContainer(p, toks)], 1),
              toks, CONT, ReadTok(p.toknext - 1, NoReads))

\* case '-': case '0': ... case '9': case 't': case 'f': case 'n':
CasePrimitive(p, toks, n, g) ==
  IF /\ p.toksuper # -1
     /\ \/ toks[p.toksuper].type = JSMN_OBJECT
        \/ toks[p.toksuper].type = JSMN_STRING /\ ~toks[p.toksuper].is_key
    THEN Return(p, toks, JSMN_ERROR_INVAL, NoReads)
    ELSE Attach(jsmn_parse_primitive(p, toks, n, g), p)

\* the bytes of the driver's switch
Opening   == {"{", "["}
Closing   == {"}", "]"}
Space     == {"\r", "\n", " ", "\t", "\f", VT}
PrimStart ==
  {"-", "0", "1", "2", "3", "4", "5", "6", "7", "8", "9", "t", "f", "n"}

\* for (; parser->pos < len && js[parser->pos] != '\0';)
InLoop(p) == p.pos < len /\ js[p.pos + 1] # NUL

\* the unclosed check after the loop, its scan having stopped at i
Unclosed(toks, i) ==
  IF i = -1 THEN JSMN_SUCCESS
  ELSE IF toks[i].type = JSMN_OBJECT THEN JSMN_ERROR_UNCLOSED_OBJECT
  ELSE JSMN_ERROR_UNCLOSED_ARRAY

EndOfInput(p, toks) ==
  Return(p, toks, Unclosed(toks, LastUnclosed(toks, p.toknext - 1)), NoReads)

\* parser->__last_is_comma = (c == ','), reached when the case did not return
AfterSwitch(o, c) ==
  IF o.r = CONT THEN [o EXCEPT !.p.last_is_comma = (c = ",")] ELSE o

\* the switch of the driver loop on the byte c at the cursor
Switch(c, p, toks, n, g) ==
  IF c \in Opening THEN CaseOpen(c, p, toks, n)
  ELSE IF c \in Closing THEN CaseClose(c, p, toks, g)
  ELSE IF c = QUOTE THEN CaseString(p, toks, n, g)
  ELSE IF c \in Space THEN CaseWhitespace(p, toks, g)
  ELSE IF c = ":" THEN CaseColon(p, toks, g)
  ELSE IF c = "," THEN CaseComma(p, toks, g)
  ELSE IF c \in PrimStart THEN CasePrimitive(p, toks, n, g)
  ELSE Return(p, toks, JSMN_ERROR_INVAL, NoReads)

\* one iteration of the driver loop, or the end of input
Iterate(p, toks, n, g) ==
  IF InLoop(p)
    THEN AfterSwitch(Switch(js[p.pos + 1], p, toks, n, g), js[p.pos + 1])
    ELSE EndOfInput(p, toks)

\* the pending token is copied into the slot a gave
Copied(p, a) ==
  Return([a.p EXCEPT !.tokbuf.type = JSMN_UNDEFINED,
                     !.tokbuf.unclosed = FALSE,
                     !.tokbuf.is_key = FALSE,
                     !.last_is_comma = IF JSMN_NO_TRAILING_COMMAS THEN FALSE
                                       ELSE @],
         [a.toks EXCEPT ![a.idx] = p.tokbuf], CONT, NoReads)

\* the head of jsmn_parse: the pending token moves into the pool
Resume(p, toks, n) ==
  IF p.tokbuf.type = JSMN_UNDEFINED THEN Return(p, toks, CONT, NoReads)
  ELSE IF p.toknext >= n THEN Return(p, toks, JSMN_ERROR_NOMEM, NoReads)
  ELSE Copied(p, jsmn_alloc_token(p, toks, n))

\* jsmn_init
jsmn_init ==
  [pos |-> 0, toknext |-> 0, col |-> 1, line |-> 1, toksuper |-> -1,
   last_is_comma |-> FALSE, tokbuf |-> InitToken]

\* ----------------------------------------------------------------- inputs
\* {"a":1,"b":[true,false]}
ScenarioA ==
  <<"{", QUOTE, "a", QUOTE, ":", "1", ",", QUOTE, "b", QUOTE, ":", "[", "t",
  "r", "u", "e", ",", "f", "a", "l", "s", "e", "]", "}">>
\* [1,2,]
TrailingInArray ==
  <<"[", "1", ",", "2", ",", "]">>
\* {"a":1,}
TrailingInObject ==
  <<"{", QUOTE, "a", QUOTE, ":", "1", ",", "}">>
\* "\x"
BadEscape ==
  <<QUOTE, BSL, "x", QUOTE>>
\* [1,2,3]
ThreeElements ==
  <<"[", "1", ",", "2", ",", "3", "]">>
\* {"a":[1]"x"}
SecondValue ==
  <<"{", QUOTE, "a", QUOTE, ":", "[", "1", "]", QUOTE, "x", QUOTE, "}">>
\* {"a":{},"b":[[],1]}
EmptyContainers ==
  <<"{", QUOTE, "a", QUOTE, ":", "{", "}", ",", QUOTE, "b", QUOTE, ":", "[",
  "[", "]", ",", "1", "]", "}">>
\* {"a""b":1}
KeyKey ==
  <<"{", QUOTE, "a", QUOTE, QUOTE, "b", QUOTE, ":", "1", "}">>
\* {"a":"b""c"}
StringAfterValue ==
  <<"{", QUOTE, "a", QUOTE, ":", QUOTE, "b", QUOTE, QUOTE, "c", QUOTE, "}">>
\* ["\u12aF","\u1\n","\u"]
Unicode ==
  <<"[", QUOTE, BSL, "u", "1", "2", "a", "F", QUOTE, ",", QUOTE, BSL, "u",
  "1", "\n", QUOTE, ",", QUOTE, BSL, "u", QUOTE, "]">>
\* [1 , ,2 , ]\r\n
SpacedCommas ==
  <<"[", "1", " ", ",", " ", ",", "2", " ", ",", " ", "]", "\r", "\n">>
\* [{"a":"b"},[2,"c"]] 1
Nested ==
  <<"[", "{", QUOTE, "a", QUOTE, ":", QUOTE, "b", QUOTE, "}", ",", "[", "2",
  ",", QUOTE, "c", QUOTE, "]", "]", " ", "1">>
\* "a" 1 "b":2,
RootValues ==
  <<QUOTE, "a", QUOTE, " ", "1", " ", QUOTE, "b", QUOTE, ":", "2", ",">>
\* {"a":[1}]
Mismatch ==
  <<"{", QUOTE, "a", QUOTE, ":", "[", "1", "}", "]">>
\* {"a\"":-1 ,"\u12aF":"b\\"}
EscapedKeys ==
  <<"{", QUOTE, "a", BSL, QUOTE, QUOTE, ":", "-", "1", " ", ",", QUOTE, BSL,
    "u", "1", "2", "a", "F", QUOTE, ":", QUOTE, "b", BSL, BSL, QUOTE, "}">>
\* [[],1]
EmptyElement ==
  <<"[", "[", "]", ",", "1", "]">>
\* -1 followed by a line feed
RootPrimitive ==
  <<"-", "1", "\n">>
\* [\n\r1]
BrokenNewline ==
  <<"[", "\n", "\r", "1", "]">>

Docs ==
  {ScenarioA,
   TrailingInArray,
   TrailingInObject,
   BadEscape,
   ThreeElements,
   SecondValue,
   EmptyContainers,
   KeyKey,
   StringAfterValue,
   Unicode,
   SpacedCommas,
   Nested,
   RootValues,
   Mismatch,
   EscapedKeys,
   EmptyElement,
   RootPrimitive,
   BrokenNewline}

\* the bytes of the enumerated inputs
Alphabet == {"{", "}", "[", "]", QUOTE, ":", ",", "1", " ", "\r", "\n", BSL,
             "u", NUL}

Strings(k) == UNION {[1..m -> Alphabet] : m \in 0..k}

Inputs == Docs \cup Strings(MaxLen)

\* what the byte past the end of js, and the record at tokens[-1], can be
OutsideBytes == {NUL, "\n", "1", "x"}
OutsideToks == [type : {JSMN_OBJECT, JSMN_STRING}, is_key : BOOLEAN]

Init ==
  /\ js \in Inputs
  /\ len \in 0..Len(js)
  /\ JSMN_PARENT_LINKS \in BOOLEAN
  /\ JSMN_TESTMODE \in BOOLEAN
  /\ JSMN_NO_TRAILING_COMMAS \in BOOLEAN
  /\ parser = jsmn_init
  /\ tokens = [i \in 0..(MaxCap - 1) |-> InitToken]
  /\ num_tokens = 0
  /\ pc = "ready"
  /\ result = CONT
  /\ outsideByte = {}
  /\ outsideTok = {}
  /\ readBeyond = FALSE
  /\ readOutside = FALSE

Unchanged == UNCHANGED <<js, len, JSMN_PARENT_LINKS, JSMN_TESTMODE,
                         JSMN_NO_TRAILING_COMMAS>>

\* Memory does not change under the parser: what was read once stays what it
\* was.  A step that reads no outside memory is given any one content.
ByteChoices(fl) ==
  IF outsideByte # {} THEN outsideByte
  ELSE IF fl.memByte THEN OutsideBytes ELSE {NUL}

TokChoices(fl) ==
  IF outsideTok # {} THEN outsideTok
  ELSE IF fl.memTok THEN OutsideToks
  ELSE {[type |-> JSMN_STRING, is_key |-> FALSE]}

Outside(b, t) == [byte |-> b, type |-> t.type, is_key |-> t.is_key]

\* the memory outside as a step that reads none of it may take it to be
AnyOutside == Outside(CHOOSE b \in ByteChoices(NoReads) : TRUE,
                      CHOOSE t \in TokChoices(NoReads) : TRUE)

\* What a step of jsmn_parse leaves behind, o being what the code computes
\* when the memory outside the buffers is g.
Effect(o, g) ==
  /\ outsideByte' = IF o.fl.memByte THEN {g.byte} ELSE outsideByte
  /\ outsideTok' = IF o.fl.memTok
                     THEN {[type |-> g.type, is_key |-> g.is_key]}
                     ELSE outsideTok
  /\ readBeyond' = (readBeyond \/ o.fl.beyond)
  /\ readOutside' = (readOutside \/ o.fl.pool)
  /\ parser' = o.p
  /\ tokens' = o.toks
  /\ result' = o.r
  /\ pc' = IF o.r = CONT THEN "loop"
           ELSE IF o.r = JSMN_ERROR_NOMEM THEN "ready"
           ELSE "done"

\* The read of memory that was never read before traps, and the process dies.
Trap(fl) ==
  /\ (fl.memByte /\ outsideByte = {}) \/ (fl.memTok /\ outsideTok = {})
  /\ pc' = "done"
  /\ result' = FAULT
  /\ readBeyond' = (readBeyond \/ fl.beyond)
  /\ readOutside' = (readOutside \/ fl.pool)
  /\ UNCHANGED <<parser, tokens, outsideByte, outsideTok>>

\* A step whose outcome is F(g) when the memory outside is g; fl is what the
\* step reads.
Step(fl, F(_)) ==
  \/ \E b \in ByteChoices(fl), t \in TokChoices(fl) :
       Effect(F(Outside(b, t)), Outside(b, t))
  \/ Trap(fl)

Cur == js[parser.pos + 1]
Looping == pc = "loop" /\ InLoop(parser)

\* The caller calls jsmn_parse: the first call of a session with a pool of
\* any capacity, a call after NoMemory with the same backing array and a
\* capacity that is not smaller.
Call(n) ==
  /\ pc = "ready"
  /\ n >= num_tokens
  /\ num_tokens' = n
  /\ Step(NoReads, LAMBDA g : Resume(parser, tokens, n))
  /\ Unchanged

Open ==
  /\ Looping /\ Cur \in Opening
  /\ Step(NoReads,
          LAMBDA g : AfterSwitch(CaseOpen(Cur, parser, tokens, num_tokens), Cur))
  /\ UNCHANGED num_tokens /\ Unchanged

Close ==
  /\ Looping /\ Cur \in Closing
  /\ Step(CaseClose(Cur, parser, tokens, AnyOutside).fl,
          LAMBDA g : AfterSwitch(CaseClose(Cur, parser, tokens, g), Cur))
  /\ UNCHANGED num_tokens /\ Unchanged

String ==
  /\ Looping /\ Cur = QUOTE
  /\ Step(CaseString(parser, tokens, num_tokens, AnyOutside).fl,
          LAMBDA g : AfterSwitch(CaseString(parser, tokens, num_tokens, g), Cur))
  /\ UNCHANGED num_tokens /\ Unchanged

Whitespace ==
  /\ Looping /\ Cur \in Space
  /\ Step(CaseWhitespace(parser, tokens, AnyOutside).fl,
          LAMBDA g : AfterSwitch(CaseWhitespace(parser, tokens, g), Cur))
  /\ UNCHANGED num_tokens /\ Unchanged

Colon ==
  /\ Looping /\ Cur = ":"
  /\ Step(CaseColon(parser, tokens, AnyOutside).fl,
          LAMBDA g : AfterSwitch(CaseColon(parser, tokens, g), Cur))
  /\ UNCHANGED num_tokens /\ Unchanged

Comma ==
  /\ Looping /\ Cur = ","
  /\ Step(CaseComma(parser, tokens, AnyOutside).fl,
          LAMBDA g : AfterSwitch(CaseComma(parser, tokens, g), Cur))
  /\ UNCHANGED num_tokens /\ Unchanged

Primitive ==
  /\ Looping /\ Cur \in PrimStart
  /\ Step(NoReads,
          LAMBDA g : AfterSwitch(CasePrimitive(parser, tokens, num_tokens, g),
                                 Cur))
  /\ UNCHANGED num_tokens /\ Unchanged

\* default: of the switch
Invalid ==
  /\ Looping
  /\ Cur \notin Opening \cup Closing \cup Space \cup PrimStart
                     \cup {QUOTE, ":", ","}
  /\ Step(NoReads, LAMBDA g : Return(parser, tokens, JSMN_ERROR_INVAL, NoReads))
  /\ UNCHANGED num_tokens /\ Unchanged

\* the loop condition fails: the unclosed check and the return
Finish ==
  /\ pc = "loop" /\ ~InLoop(parser)
  /\ Step(NoReads, LAMBDA g : EndOfInput(parser, tokens))
  /\ UNCHANGED num_tokens /\ Unchanged

Next ==
  \/ \E n \in 0..MaxCap : Call(n)
  \/ Open
  \/ Close
  \/ String
  \/ Whitespace
  \/ Colon
  \/ Comma
  \/ Primitive
  \/ Invalid
  \/ Finish

Spec == Init /\ [][Next]_vars

\* one iteration of the driver loop, or the return after it
LoopStep ==
  Open \/ Close \/ String \/ Whitespace \/ Colon \/ Comma \/ Primitive
    \/ Invalid \/ Finish

\* the caller calls with a pool of strictly larger capacity
Grow == \E n \in 0..MaxCap : n > num_tokens /\ Call(n)

\* [1,x]
Garbage ==
  <<"[", "1", ",", "x", "]">>

\* the documents of the sessions that are followed to their end
RetryDocs ==
  {ScenarioA, Nested, SpacedCommas, Mismatch, TrailingInObject, BadEscape,
   EmptyElement, RootPrimitive, Garbage}

\* a session over a whole document
RetryInit ==
  /\ js \in RetryDocs
  /\ len = Len(js)
  /\ JSMN_PARENT_LINKS \in BOOLEAN
  /\ JSMN_TESTMODE \in BOOLEAN
  /\ JSMN_NO_TRAILING_COMMAS \in BOOLEAN
  /\ parser = jsmn_init
  /\ tokens = [i \in 0..(MaxCap - 1) |-> InitToken]
  /\ num_tokens = 0
  /\ pc = "ready"
  /\ result = CONT
  /\ outsideByte = {}
  /\ outsideTok = {}
  /\ readBeyond = FALSE
  /\ readOutside = FALSE

\* A call that has begun runs on to its return, and a caller that is told
\* NoMemory comes back, sooner or later, with a larger pool.
FairSpec == RetryInit /\ [][Next]_vars /\ WF_vars(LoopStep) /\ SF_vars(Grow)

\* ------------------------------------------------------------- properties
\* effective end = min(len, offset of the first NUL)
RECURSIVE FirstNul(_)
FirstNul(i) == IF i >= len \/ js[i + 1] = NUL THEN i ELSE FirstNul(i + 1)
EffectiveEnd == FirstNul(0)

Done    == pc = "done"
Success == pc = "done" /\ result = JSMN_SUCCESS
Pool    == 0..(parser.toknext - 1)

\* The document read off its bytes alone, up to offset `at`: the offsets of
\* the brackets open there, innermost last, and whether `at` is inside a
\* string or a primitive.  A string runs to its first quote that no backslash
\* precedes, a primitive to its first terminator.
RECURSIVE Lex(_, _, _, _)
Lex(i, mode, open, at) ==
  IF i >= at THEN [mode |-> mode, open |-> open]
  ELSE IF mode = "string"
    THEN IF js[i + 1] = QUOTE THEN Lex(i + 1, "top", open, at)
         ELSE IF js[i + 1] = BSL THEN Lex(i + 2, "string", open, at)
         ELSE Lex(i + 1, "string", open, at)
  ELSE IF mode = "primitive" /\ js[i + 1] \notin PrimitiveEnd
    THEN Lex(i + 1, "primitive", open, at)
  ELSE IF js[i + 1] \in Opening THEN Lex(i + 1, "top", Append(open, i), at)
  ELSE IF js[i + 1] \in Closing
    THEN Lex(i + 1, "top",
             IF open = <<>> THEN open ELSE SubSeq(open, 1, Len(open) - 1), at)
  ELSE IF js[i + 1] = QUOTE THEN Lex(i + 1, "string", open, at)
  ELSE IF js[i + 1] \in PrimStart THEN Lex(i + 1, "primitive", open, at)
  ELSE Lex(i + 1, "top", open, at)

\* the bracket the byte at offset i lies directly inside: its offset, or -1
OpenAt(i) ==
  IF Lex(0, "top", <<>>, i).open = <<>> THEN -1
  ELSE Lex(0, "top", <<>>, i).open[Len(Lex(0, "top", <<>>, i).open)]

\* the offset at which token i begins in the text (a string's opening quote)
Begin(i) ==
  IF tokens[i].type = JSMN_STRING THEN tokens[i].start - 1 ELSE tokens[i].start

\* the offset of the bracket token i lies directly inside, or -1 at the root
EnclosingBracket(i) == OpenAt(Begin(i))

\* the tokens that lie directly inside container token c
Children(c) ==
  {i \in Pool : tokens[i].type # JSMN_UNDEFINED
                /\ EnclosingBracket(i) = tokens[c].start}

\* the first quote at or after offset i that no backslash escapes, or -1
RECURSIVE ClosingQuote(_)
ClosingQuote(i) ==
  IF i >= EffectiveEnd THEN -1
  ELSE IF js[i + 1] = QUOTE THEN i
  ELSE IF js[i + 1] = BSL THEN ClosingQuote(i + 2)
  ELSE ClosingQuote(i + 1)

StringSlice(t) ==
  /\ t.start >= 1
  /\ js[t.start] = QUOTE
  /\ t.size >= 0
  /\ t.start + t.size < EffectiveEnd
  /\ ClosingQuote(t.start) = t.start + t.size

PrimitiveSlice(t) ==
  /\ t.start >= 0
  /\ t.size >= 1
  /\ t.start + t.size < EffectiveEnd
  /\ js[t.start + t.size + 1] \in PrimitiveEnd
  /\ \A k \in t.start..(t.start + t.size - 1) : js[k + 1] \notin PrimitiveEnd

\* C2: after a Success every String token spans exactly the bytes between
\* its two quotes, and every Primitive token spans exactly the bytes from its
\* first character up to, and not including, the terminator that follows it.
C2_Slices ==
  Success =>
    \A i \in Pool :
      /\ tokens[i].type = JSMN_STRING => StringSlice(tokens[i])
      /\ tokens[i].type = JSMN_PRIMITIVE => PrimitiveSlice(tokens[i])

C2_Witness ==
  /\ Success
  /\ \E i \in Pool :
       /\ tokens[i].type = JSMN_STRING
       /\ tokens[i].size >= 2
       /\ \E k \in 1..tokens[i].size : js[tokens[i].start + k] = BSL
  /\ \E i \in Pool : tokens[i].type = JSMN_PRIMITIVE /\ tokens[i].size >= 2

\* C3: after a Success the size of every Object token is the number of key
\* tokens that lie directly inside that object.
C3_ObjectSize ==
  Success =>
    \A c \in Pool :
      tokens[c].type = JSMN_OBJECT =>
        tokens[c].size =
          Cardinality({i \in Children(c) :
                         tokens[i].type = JSMN_STRING /\ tokens[i].is_key})

C3_Witness ==
  /\ Success
  /\ \E c, d \in Pool :
       /\ tokens[c].type = JSMN_OBJECT /\ tokens[c].size = 2
       /\ tokens[d].type = JSMN_OBJECT /\ tokens[d].size = 0
       /\ d \in Children(c)
       /\ \E k \in Children(c) : tokens[k].is_key /\ k < d

\* C4: after a Success the size of every Array token is the number of
\* element tokens that lie directly inside that array.
C4_ArraySize ==
  Success =>
    \A c \in Pool :
      tokens[c].type = JSMN_ARRAY =>
        tokens[c].size = Cardinality(Children(c))

C4_Witness ==
  /\ Success
  /\ \E c, d \in Pool :
       /\ tokens[c].type = JSMN_ARRAY /\ tokens[c].size = 2
       /\ tokens[d].type = JSMN_ARRAY /\ tokens[d].size = 0
       /\ d \in Children(c)

\* the key tokens of the pool
Keys == {i \in Pool : tokens[i].type = JSMN_STRING /\ tokens[i].is_key}

\* C5: associated goes from false to true when the value of a key has been
\* scanned and never back, so after a Success in which no slot outside the
\* pool was read every key token has associated = true; in scenario A both
\* "a" and "b" have it.
C5_Associated ==
  (Success /\ ~readOutside) => \A i \in Keys : tokens[i].associated

\* the byte before the cursor, the cursor not being at offset 0
Prev == js[parser.pos]

\* C8: with JSMN_NO_TRAILING_COMMAS a closing bracket that directly follows
\* a ',' is never passed: the call fails there with TrailingComma, parent
\* links or not; without the flag [1,2,], parsed with no token ever deferred,
\* gives Success and an Array of size 2.
C8_TrailingComma ==
  /\ (/\ JSMN_NO_TRAILING_COMMAS /\ ~readOutside
      /\ parser.pos >= 2 /\ parser.pos <= len) =>
       ~(js[parser.pos] \in Closing /\ js[parser.pos - 1] = ",")
  /\ (/\ JSMN_NO_TRAILING_COMMAS /\ ~readOutside /\ Done /\ result # FAULT
      /\ InLoop(parser) /\ parser.pos >= 1 /\ Cur \in Closing /\ Prev = ",") =>
       result = JSMN_ERROR_TRAILING_COMMA
  /\ (/\ ~JSMN_NO_TRAILING_COMMAS /\ JSMN_TESTMODE /\ Done
      /\ parser.tokbuf = InitToken
      /\ js = TrailingInArray /\ len = Len(js)) =>
       Success /\ tokens[0].type = JSMN_ARRAY /\ tokens[0].size = 2

\* C9: in strict mode the first token of a document is an Object: a Success
\* that produced tokens has an Object in slot 0, and a document whose first
\* token would be an Array fails with UnexpectedChar.
C9_StrictRoot ==
  /\ (~JSMN_TESTMODE /\ ~readOutside /\ Success /\ parser.toknext >= 1) =>
       tokens[0].type = JSMN_OBJECT
  /\ (~JSMN_TESTMODE /\ Done /\ parser.toknext = 0 /\ InLoop(parser)
      /\ Cur = "[") => result = JSMN_ERROR_UNEXPECTED_CHAR

\* C10: no byte of js at an offset >= len is ever read, and the cursor never
\* passes the effective end.
C10_Bounds == ~readBeyond /\ parser.pos <= EffectiveEnd

ContainerOf(c) == IF c \in {"{", "}"} THEN JSMN_OBJECT ELSE JSMN_ARRAY

\* the unclosed token of the highest index, or -1
HighestUnclosed ==
  IF \E i \in Pool : tokens[i].unclosed
    THEN CHOOSE i \in Pool :
           tokens[i].unclosed /\ \A k \in Pool : tokens[k].unclosed => k <= i
    ELSE -1

\* the call returned because the driver loop had reached the end of input
AtEnd == Done /\ result # FAULT /\ ~InLoop(parser)

C6_AtEnd ==
  AtEnd =>
    result = IF HighestUnclosed = -1 THEN JSMN_SUCCESS
             ELSE IF tokens[HighestUnclosed].type = JSMN_OBJECT
               THEN JSMN_ERROR_UNCLOSED_OBJECT
             ELSE JSMN_ERROR_UNCLOSED_ARRAY

\* the step takes the cursor past the bracket it stands on
Passes(brackets) ==
  Looping /\ Cur \in brackets /\ parser'.pos = parser.pos + 1

C6_Step ==
  /\ \A i \in 0..(MaxCap - 1) :
       /\ (~tokens[i].unclosed /\ tokens'[i].unclosed) =>
            /\ Passes(Opening)
            /\ i = parser.toknext
            /\ tokens'[i].type = ContainerOf(Cur)
            /\ tokens'[i].start = parser.pos
       /\ (tokens[i].unclosed /\ ~tokens'[i].unclosed) =>
            /\ Passes(Closing)
            /\ tokens[i].type = ContainerOf(Cur)
            /\ tokens[i].start = OpenAt(parser.pos)
            /\ i = HighestUnclosed
  /\ Passes(Opening) => tokens'[parser.toknext].unclosed
  /\ Passes(Closing) =>
       \E i \in Pool : /\ tokens[i].start = OpenAt(parser.pos)
                       /\ tokens[i].unclosed /\ ~tokens'[i].unclosed

\* C6: when the driver loop reaches the end of input the call returns Success
\* if no token is unclosed, and otherwise UnclosedObject or UnclosedArray
\* after the type of the unclosed token of the highest index; a container
\* token is unclosed from the step that passes its opening bracket until the
\* step that passes the closing bracket matching it.
C6_Unclosed == []C6_AtEnd /\ [][C6_Step]_vars

C6_Witness ==
  /\ AtEnd
  /\ result = JSMN_ERROR_UNCLOSED_ARRAY
  /\ \E i, k \in Pool :
       /\ i < k /\ i < HighestUnclosed
       /\ tokens[i].type = JSMN_OBJECT /\ tokens[i].unclosed
       /\ tokens[k].type \in {JSMN_OBJECT, JSMN_ARRAY} /\ ~tokens[k].unclosed

\* the document ends inside an object
EndsInObject == OpenAt(EffectiveEnd) # -1 /\ js[OpenAt(EffectiveEnd) + 1] = "{"

\* the document ends in a primitive that no terminator follows
EndsInPrimitive == Lex(0, "top", <<>>, EffectiveEnd).mode = "primitive"

\* the cursor stands on a primitive that is the value of a key and that runs
\* to the end of input with no terminator
PrimitiveAtEnd ==
  /\ InLoop(parser) /\ Cur \in PrimStart
  /\ PrimitiveScan(parser.pos, AnyOutside) = -1
  /\ parser.toksuper # -1
  /\ tokens[parser.toksuper].is_key /\ ~tokens[parser.toksuper].associated

\* C7 as it is written: a document that ends while an Object is open fails
\* with UnclosedObject, also when it ends directly after a primitive value
\* that has no terminator, as {"a":1 does.
C7_Original ==
  (Done /\ result # FAULT /\ EndsInObject /\ (~InLoop(parser) \/ PrimitiveAtEnd))
    => result = JSMN_ERROR_UNCLOSED_OBJECT

\* C7: a document that ends while an Object is open fails with
\* UnclosedObject when the driver loop reaches the end of input, which it
\* does not do when the document ends in a primitive that no terminator
\* follows: with the cursor on such a primitive that is the value of a key, as
\* in {"a":1, the call fails with UnexpectedEndOfInput.
C7_UnclosedObject ==
  (Done /\ result # FAULT /\ EndsInObject) =>
    /\ ~InLoop(parser) =>
         result = JSMN_ERROR_UNCLOSED_OBJECT /\ ~EndsInPrimitive
    /\ PrimitiveAtEnd => result = JSMN_ERROR_UNEXPECTED_EOF

C7_Witness ==
  /\ Done /\ EndsInObject /\ PrimitiveAtEnd
  /\ js = ScenarioA /\ len = 6
  /\ result = JSMN_ERROR_UNEXPECTED_EOF
  /\ tokens[0].unclosed

\* jsmn_parse run to its return in one go
RECURSIVE Run(_, _, _, _)
Run(p, toks, n, g) ==
  IF Iterate(p, toks, n, g).r = CONT
    THEN Run(Iterate(p, toks, n, g).p, Iterate(p, toks, n, g).toks, n, g)
    ELSE Iterate(p, toks, n, g)

\* one call on a fresh parser with a pool that holds any document of js
SingleCall(g) ==
  Run(jsmn_init, [i \in 0..Len(js) |-> InitToken], Len(js) + 1, g)

SameAs(o) ==
  /\ o.r = result
  /\ o.p.pos = parser.pos /\ o.p.line = parser.line /\ o.p.col = parser.col
  /\ \A i \in Pool : o.toks[i] = tokens[i]

\* C1: a session of calls, each after the first resuming after NoMemory with
\* a larger pool, ends with the result, with every field of every token of
\* its pool and with the cursor, line and column of a single call on a fresh
\* parser whose pool was large enough from the start.
C1_Resume ==
  (Done /\ result # FAULT) =>
    \E b \in IF outsideByte = {} THEN OutsideBytes ELSE outsideByte,
       t \in IF outsideTok = {} THEN OutsideToks ELSE outsideTok :
      SameAs(SingleCall(Outside(b, t)))

\* the step before took the cursor past a closing bracket
AfterClose ==
  /\ pc = "loop" /\ parser.pos >= 1 /\ parser.pos <= len
  /\ js[parser.pos] \in Closing

\* C11: with parent links and without them toksuper is the same after each
\* ']' or '}': the backward scan leaves it on the open container of the
\* highest index, or at -1, and the parent links leave it there too.
C11_SameContainer ==
  (AfterClose /\ ~readOutside) => parser.toksuper = HighestUnclosed

\* the offset of the byte after the closing quote of string token i
After(i) == tokens[i].start + tokens[i].size + 1

\* C12: a key of an object that another string follows at once, with no ':'
\* in between, is not accepted: the call fails with UnexpectedCharacter on
\* the second string, and no Success leaves such a key in the pool.
C12_KeyThenString ==
  /\ (Success /\ ~readOutside) =>
       \A i \in Keys :
         (EnclosingBracket(i) # -1 /\ After(i) < len) => js[After(i) + 1] # QUOTE
  /\ (/\ Done /\ result # FAULT /\ ~readOutside /\ InLoop(parser) /\ Cur = QUOTE
      /\ ClosingQuote(parser.pos + 1) # -1
      /\ \E i \in Keys : EnclosingBracket(i) # -1 /\ After(i) = parser.pos) =>
       result \in {JSMN_ERROR_UNEXPECTED_CHAR, JSMN_ERROR_INVAL}

\* the string case or the primitive case returns UnexpectedCharacter, which
\* it does only after its scanner completed
Rejects ==
  /\ Looping /\ Cur \in PrimStart \cup {QUOTE}
  /\ result' = JSMN_ERROR_UNEXPECTED_CHAR

Rewound ==
  /\ parser'.pos = parser.pos
  /\ parser'.line = parser.line
  /\ parser'.col = parser.col
  /\ parser'.tokbuf.type = JSMN_UNDEFINED
  /\ parser'.toksuper = parser.toksuper
  /\ parser'.toknext = parser.toknext
  /\ \A i \in Pool : tokens'[i] = tokens[i]

\* C13: when the string case or the primitive case returns
\* UnexpectedCharacter, the parser is as it was before the scan: cursor, line
\* and column are restored, the pending token is cleared, toknext is
\* unchanged and the pool holds the tokens it held, with a free slot or not.
C13_Rewind == [][Rejects => Rewound]_vars

HexDigits ==
  {"0", "1", "2", "3", "4", "5", "6", "7", "8", "9",
   "a", "b", "c", "d", "e", "f", "A", "B", "C", "D", "E", "F"}

\* every escape of the bytes [i, e) is one of \" \\ \/ \b \f \r \n \t or a
\* \u that four hex digits follow
RECURSIVE EscapesOk(_, _)
EscapesOk(i, e) ==
  IF i >= e THEN TRUE
  ELSE IF js[i + 1] # BSL THEN EscapesOk(i + 1, e)
  ELSE IF i + 1 >= e THEN FALSE
  ELSE IF js[i + 2] \in AllowedEscapes THEN EscapesOk(i + 2, e)
  ELSE IF js[i + 2] = "u"
    THEN /\ i + 5 < e
         /\ \A k \in 2..5 : js[i + k + 1] \in HexDigits
         /\ EscapesOk(i + 6, e)
  ELSE FALSE

\* C14: the string scanner accepts a \u only with four hex digits after it
\* and no escape letter other than " \ / b f r n t u: no String token holds
\* another escape, and a string that holds one fails with InvalidCharacter.
C14_Escapes ==
  /\ \A i \in Pool :
       tokens[i].type = JSMN_STRING =>
         EscapesOk(tokens[i].start, tokens[i].start + tokens[i].size)
  /\ (/\ Done /\ result # FAULT /\ InLoop(parser) /\ Cur = QUOTE
      /\ ClosingQuote(parser.pos + 1) # -1
      /\ ~EscapesOk(parser.pos + 1, ClosingQuote(parser.pos + 1))) =>
       result = JSMN_ERROR_INVAL

\* the last byte before offset i that is not white space, or "" if none
RECURSIVE LastNonSpace(_)
LastNonSpace(i) ==
  IF i < 1 THEN ""
  ELSE IF js[i] \in Space THEN LastNonSpace(i - 1)
  ELSE js[i]

\* C15: inside a call in which no token was ever deferred, last_is_comma is
\* true exactly when the last byte dispatched that is not white space was a
\* ',': white space leaves it alone, so the cursor never passes a ',' that
\* follows a ',' across white space only.
C15_LastIsComma ==
  (/\ pc = "loop" /\ ~readOutside
   /\ parser.tokbuf = InitToken /\ parser.pos <= len) =>
    /\ parser.last_is_comma <=> (LastNonSpace(parser.pos) = ",")
    /\ ~(/\ parser.pos >= 1 /\ js[parser.pos] = ","
         /\ LastNonSpace(parser.pos - 1) = ",")

\* the first byte at or after offset i that is not white space, or "" if none
RECURSIVE NextNonSpace(_)
NextNonSpace(i) ==
  IF i >= EffectiveEnd THEN ""
  ELSE IF js[i + 1] \in Space THEN NextNonSpace(i + 1)
  ELSE js[i + 1]

\* C16: with JSMN_NO_TRAILING_COMMAS the ',' case fails with TrailingComma
\* only for a comma right after an opening bracket or right before a closing
\* one; a comma after a complete value, a closed container included, is not
\* a trailing comma.
C16_OnlyTrailing ==
  (/\ JSMN_NO_TRAILING_COMMAS /\ ~readOutside /\ Done
   /\ InLoop(parser) /\ Cur = ","
   /\ result = JSMN_ERROR_TRAILING_COMMA) =>
    \/ LastNonSpace(parser.pos) \in Opening
    \/ NextNonSpace(parser.pos + 1) \in Closing

\* token i names as its parent the container it lies directly inside
ParentIsContainer(i) ==
  IF EnclosingBracket(i) = -1 THEN tokens[i].parent = -1
  ELSE /\ tokens[i].parent \in Pool
       /\ tokens[tokens[i].parent].type \in {JSMN_OBJECT, JSMN_ARRAY}
       /\ tokens[tokens[i].parent].start = EnclosingBracket(i)

\* C17: with JSMN_PARENT_LINKS the parent of every token in the pool is the
\* index of the Object or Array it lies directly inside, or none at the root:
\* for keys, for values of keys, for array elements and for tokens copied
\* from tokbuf on resume.
C17_Parent ==
  (JSMN_PARENT_LINKS /\ ~readOutside) =>
    \A i \in Pool : tokens[i].type # JSMN_UNDEFINED => ParentIsContainer(i)

\* C18: every read or write of tokens[] by jsmn_parse and the string scanner
\* is at an index within 0..toknext-1, and toknext never passes num_tokens:
\* tokens[toknext - 1] is not touched while toknext = 0 and tokens[toksuper]
\* is not touched while toksuper = -1.
C18_PoolAccess ==
  /\ ~readOutside
  /\ pc # "ready" => parser.toknext <= num_tokens

\* the tokens of key k's container that begin after k and before the next key
ValuesOf(k) ==
  {t \in Pool :
     /\ tokens[t].type # JSMN_UNDEFINED
     /\ EnclosingBracket(t) = EnclosingBracket(k)
     /\ tokens[t].start > tokens[k].start
     /\ ~\E n \in Keys : /\ EnclosingBracket(n) = EnclosingBracket(k)
                         /\ tokens[n].start > tokens[k].start
                         /\ tokens[n].start <= tokens[t].start}

\* C19: on Success every key token has exactly one value token: no key is
\* left with none and none receives two, with JSMN_PARENT_LINKS and without.
C19_OneValue ==
  (Success /\ ~readOutside) =>
    \A k \in Keys : EnclosingBracket(k) # -1 => Cardinality(ValuesOf(k)) = 1

\* an iteration that does not return moves the cursor forward
C20_Advances ==
  (Looping /\ pc' = "loop") => parser'.pos > parser.pos

\* a call into a pool with no free slot, after NoMemory, changes nothing:
\* with a token pending it returns NoMemory at once, else it is back at the
\* opening bracket that found no slot, which returns NoMemory again
C20_Repeat ==
  /\ (pc = "ready" /\ result = JSMN_ERROR_NOMEM /\ num_tokens' = num_tokens) =>
       /\ parser' = parser /\ tokens' = tokens
       /\ IF parser.tokbuf.type # JSMN_UNDEFINED
            THEN pc' = "ready" /\ result' = JSMN_ERROR_NOMEM
            ELSE pc' = "loop" /\ InLoop(parser) /\ Cur \in Opening
  /\ (Looping /\ Cur \in Opening /\ parser.toknext >= num_tokens
      /\ (parser.toknext > 0 \/ JSMN_TESTMODE \/ Cur = "{")) =>
       /\ parser' = parser /\ tokens' = tokens
       /\ pc' = "ready" /\ result' = JSMN_ERROR_NOMEM

\* NoMemory is returned with the pool full, so under a pool that grows with
\* each call every NoMemory stands for another token
C20_Full ==
  (pc = "ready" /\ result = JSMN_ERROR_NOMEM) =>
    /\ parser.toknext = num_tokens
    /\ parser.toknext <= parser.pos

\* C20: every call of jsmn_parse terminates, each iteration of its loop
\* returning or moving the cursor forward; a caller that answers NoMemory
\* with a larger pool reaches a result other than NoMemory, with at most one
\* NoMemory for each token; a call into a pool that still has no free slot
\* returns NoMemory again and changes neither the parser nor the pool.
C20_Terminates ==
  /\ [][C20_Advances /\ C20_Repeat]_vars
  /\ []C20_Full
  /\ (pc = "loop") ~> (pc # "loop")
  /\ (result = JSMN_ERROR_NOMEM) ~>
       (pc = "done" \/ (result = JSMN_ERROR_NOMEM /\ num_tokens = MaxCap))

\* NoMemory with a token pending and the pool full
C20_Witness ==
  /\ pc = "ready" /\ result = JSMN_ERROR_NOMEM
  /\ parser.tokbuf.type # JSMN_UNDEFINED
  /\ num_tokens >= 2 /\ num_tokens < MaxCap
  /\ parser.toknext = num_tokens
=============================================================================
